---- MODULE Spec2Model ----
(***************************************************************************)
(* StandardConnectionService (designer-client-services, standard/          *)
(* connection.ts): creation of connections in API hub or in the local      *)
(* store, the OAuth consent flow, access-policy (ACL) reconciliation and   *)
(* the listing of connections.  Every `await` of the TypeScript code is a  *)
(* step boundary: an action is the code that runs from the completion of   *)
(* one awaited operation to the next await (or to the end of the call).    *)
(* Resource ids are sequences of path segments ("/a/b" is <<"a","b">>).    *)
(***************************************************************************)
EXTENDS Integers, Sequences, FiniteSets, TLC

VARIABLES
    opts,                       \* this._options, fixed by the constructor
    srvConnections,             \* names of the connections that exist in API hub
    srvAcls,                    \* access policies stored in API hub, per connection name
    connections,                \* this._connections: ids held by the cache
    allConnectionsInitialized,  \* this._allConnectionsInitialized
    call,                       \* the arguments of the call in progress
    ex,                         \* the execution of that call: position, trace, result
    pendingDeletes,             \* delete requests issued and not yet answered
    writtenConnections,         \* what writeConnection has stored, in the order of the writes
    nCalls                      \* calls started so far

vars == <<opts, srvConnections, srvAcls, connections, allConnectionsInitialized,
          call, ex, pendingDeletes, writtenConnections, nCalls>>

-----------------------------------------------------------------------------
(* Bounds *)

MaxCalls == 2

-----------------------------------------------------------------------------
(* Values *)

Undefined == "undefined"
NoSegments == <<>>

SYSTEM_ASSIGNED == "SystemAssigned"
USER_ASSIGNED == "UserAssigned"
SYSTEM_ASSIGNED_USER_ASSIGNED == "SystemAssigned, UserAssigned"

serviceProviderLocation == "serviceProviderConnections"
functionsLocation == "functionConnections"
apimLocation == "apiManagementConnections"

azureFunctionConnectorId == <<"connectionProviders", "azureFunctionOperation">>
apiManagementConnectorId == <<"connectionProviders", "apiManagementOperation">>
ServiceProviderConnectorId == <<"serviceProviders", "sql">>
ArmConnectorId ==
    <<"subscriptions", "sub", "providers", "Microsoft.Web", "locations", "loc", "managedApis", "office365">>

ConnectionTypeFunction == "Function"
ConnectionTypeApiManagement == "ApiManagement"
ConnectionTypeServiceProvider == "ServiceProvider"

ServiceTenantId == "T1"
Tenants == {"T1", "T2"}
AppName == "app"
ConnectionNames == {"c1"}

\* equals() of utils-logic-apps compares case-insensitively
LowerCase(s) ==
    CASE s = "UA2" -> "ua2"
      [] OTHER -> s

equals(a, b) == LowerCase(a) = LowerCase(b)

Truthy(v) == v /= Undefined /\ v /= ""

LastSegment(id) == id[Len(id)]

isArmResourceId(id) == Len(id) >= 1 /\ id[1] = "subscriptions"

getAzureConnectionRequestPath(connectionName) ==
    <<"subscriptions", "sub", "resourceGroups", "rg", "providers", "Microsoft.Web",
      "connections", connectionName>>

tryParseErrorMessage(error) == error

-----------------------------------------------------------------------------
(* Managed identities and access policies *)

UserAssignedIdentities == << [key |-> "ua1", principalId |-> "uaP1"],
                             [key |-> "ua2", principalId |-> "uaP2"] >>

\* workflowAppDetails.identity left undefined
NoIdentity ==
    [type |-> Undefined, principalId |-> Undefined, tenantId |-> Undefined,
     userAssignedIdentities |-> <<>>]

Identities ==
    {NoIdentity}
    \cup { [type |-> SYSTEM_ASSIGNED, principalId |-> "sysP", tenantId |-> t,
            userAssignedIdentities |-> <<>>] : t \in Tenants }
    \cup { [type |-> USER_ASSIGNED, principalId |-> Undefined, tenantId |-> Undefined,
            userAssignedIdentities |-> UserAssignedIdentities] }
    \cup { [type |-> SYSTEM_ASSIGNED_USER_ASSIGNED, principalId |-> "sysP", tenantId |-> t,
            userAssignedIdentities |-> UserAssignedIdentities] : t \in Tenants }

IdentityIds == {Undefined, "ua1", "UA2", "other"}

isIdentityAssociatedWithLogicApp(identity) ==
    /\ identity /= NoIdentity
    /\ \/ equals(identity.type, SYSTEM_ASSIGNED)
       \/ equals(identity.type, SYSTEM_ASSIGNED_USER_ASSIGNED)
       \/ /\ equals(identity.type, USER_ASSIGNED)
          /\ Len(identity.userAssignedIdentities) > 0

\* identityKeys.find(key => equals(key, identityIdForConnection)) ?? identityKeys[0]
SelectedIdentity(userAssigned, identityIdForConnection) ==
    LET hits == { i \in DOMAIN userAssigned : equals(userAssigned[i].key, identityIdForConnection) }
    IN  IF hits /= {}
        THEN CHOOSE i \in hits : \A j \in hits : i <= j
        ELSE IF Len(userAssigned) > 0 THEN 1 ELSE 0

\* the selection that always takes a user-assigned identity
getIdentityDetailsOfUserAssigned(managedIdentity, tenantId, identityIdForConnection) ==
    LET selected == SelectedIdentity(managedIdentity.userAssignedIdentities,
                                     identityIdForConnection)
    IN  [principalId |-> IF selected = 0 THEN Undefined
                         ELSE managedIdentity.userAssignedIdentities[selected].principalId,
         tenantId |-> tenantId]

getIdentityDetailsForApiHubAuth(managedIdentity, tenantId, identityIdForConnection) ==
    IF /\ ~Truthy(identityIdForConnection)
       /\ \/ equals(managedIdentity.type, SYSTEM_ASSIGNED)
          \/ equals(managedIdentity.type, SYSTEM_ASSIGNED_USER_ASSIGNED)
    THEN [principalId |-> managedIdentity.principalId, tenantId |-> managedIdentity.tenantId]
    ELSE LET selected == SelectedIdentity(managedIdentity.userAssignedIdentities,
                                          identityIdForConnection)
         IN  [principalId |-> IF selected = 0 THEN Undefined
                              ELSE managedIdentity.userAssignedIdentities[selected].principalId,
              tenantId |-> tenantId]

\* the comparison made with the tenant of the selected identity
AclExistsForIdentityTenant(connectionAcls, identityDetails, tenantId) ==
    \E acl \in connectionAcls :
        /\ acl.objectId = identityDetails.principalId
        /\ acl.tenantId = identityDetails.tenantId

\* connectionAcls.some(acl => objectId === principalId && acl tenantId === tenantId)
AclExists(connectionAcls, identityDetails, tenantId) ==
    \E acl \in connectionAcls :
        /\ acl.objectId = identityDetails.principalId
        /\ acl.tenantId = tenantId

\* the policy the PUT of _createAccessPolicyInConnection stores; putBy records the
\* method and identity id of the call that sent it (history, not read by the code)
AccessPolicy(appName, identityDetails, putBy) ==
    [name |-> appName \o "-" \o identityDetails.principalId,
     objectId |-> identityDetails.principalId,
     tenantId |-> identityDetails.tenantId,
     putBy |-> putBy]

\* the server keeps one policy per policy name (the PUT is sent with If-Match: *)
StorePolicy(acls, policy) == { a \in acls : a.name /= policy.name } \cup {policy}

-----------------------------------------------------------------------------
(* Connections *)

NoConnection ==
    [name |-> Undefined, id |-> NoSegments, type |-> Undefined, apiId |-> NoSegments,
     displayName |-> Undefined, overallStatus |-> Undefined, from |-> Undefined]

\* a connection resource of API hub, as the create request ("created"), the
\* get request ("fetched") or the list request ("listed") returned it
HubConnection(connectionName, from) ==
    [name |-> connectionName, id |-> getAzureConnectionRequestPath(connectionName),
     type |-> "Microsoft.Web/connections", apiId |-> ArmConnectorId,
     displayName |-> connectionName, overallStatus |-> Undefined, from |-> from]

convertServiceProviderConnectionDataToConnection(connectionKey, connectionData) ==
    [name |-> connectionKey,
     id |-> connectionData.serviceProvider.id \o <<"connections", connectionKey>>,
     type |-> "connections", apiId |-> connectionData.serviceProvider.id,
     displayName |-> connectionData.displayName, overallStatus |-> "Connected",
     from |-> "local"]

convertApimConnectionDataToConnection(connectionKey, connectionData) ==
    [name |-> connectionKey,
     id |-> apiManagementConnectorId \o <<"connections", connectionKey>>,
     type |-> "connections", apiId |-> apiManagementConnectorId,
     displayName |-> connectionData.displayName, overallStatus |-> "Connected",
     from |-> "local"]

convertFunctionsConnectionDataToConnection(connectionKey, connectionData) ==
    [name |-> connectionKey,
     id |-> azureFunctionConnectorId \o <<"connections", connectionKey>>,
     type |-> "connections", apiId |-> azureFunctionConnectorId,
     displayName |-> connectionData.displayName, overallStatus |-> "Connected",
     from |-> "local"]

-----------------------------------------------------------------------------
(* Calls and their execution *)

CreateConnectionOp == "createConnection"
OAuthOp == "createAndAuthorizeOAuthConnection"
SetupOp == "setupConnectionIfNeeded"
GetConnectionsOp == "getConnections"

HubMethod == "_createConnectionInApiHub"
LocalMethod == "createConnectionInLocal"
ConfigMethod == "_getConnectionsConfiguration"
AclMethod == "_createConnectionAclIfNeeded"

NoCall ==
    [op |-> Undefined, connectionId |-> NoSegments, connectorId |-> NoSegments,
     testConnectionUrl |-> FALSE, shouldTestConnection |-> TRUE,
     connectionType |-> Undefined, connectionCreationClient |-> Undefined,
     displayName |-> Undefined, connection |-> NoConnection, identityId |-> Undefined,
     connectionParameters |-> <<>>]

NoResult ==
    [kind |-> "none", connection |-> NoConnection, errorMessage |-> Undefined, list |-> <<>>]

NoPolicy ==
    [name |-> Undefined, objectId |-> Undefined, tenantId |-> Undefined, putBy |-> <<>>]

NoLocalData ==
    [serviceProviderConnections |-> <<>>, functionConnections |-> <<>>,
     apiManagementConnections |-> <<>>, missing |-> {}]

NoLoginResponse == [code |-> Undefined, error |-> Undefined]

NoConnectionsData ==
    [connectionKey |-> Undefined, model |-> Undefined,
     connectionData |-> [displayName |-> Undefined, serviceProvider |-> [id |-> NoSegments]],
     settings |-> <<>>, pathLocation |-> <<>>]

FreshExecution ==
    [pc |-> "invoked", trace |-> <<>>, result |-> NoResult, dels |-> <<>>,
     shouldTestConnection |-> TRUE, connection |-> NoConnection, fetched |-> NoConnection,
     aclCaller |-> Undefined, aclConnection |-> NoConnection, aclIdentityId |-> Undefined,
     connectionAcls |-> {}, aclPolicy |-> NoPolicy, loginResponse |-> NoLoginResponse,
     localRead |-> "idle", hubRead |-> "idle",
     localData |-> NoLocalData, hubData |-> <<>>, connectionsData |-> NoConnectionsData,
     testResponse |-> 0]

\* a trace entry: the method that acted, what it did ("start" an awaited operation,
\* see it end "ok" or "fail", or "fire" a request it does not await), the operation
\* and its argument (a sequence of strings)
Log(e, method, kind, operation, arg) ==
    [e EXCEPT !.trace = Append(@, <<method, kind, operation, arg>>)]

Await(e, method, operation, arg, pc) ==
    [Log(e, method, "start", operation, arg) EXCEPT !.pc = pc]

Ended(e, method, kind, operation) == Log(e, method, kind, operation, NoSegments)

\* this.deleteConnection(id), not awaited
deleteConnection(e, method, id) ==
    [Log(e, method, "fire", "deleteConnection", id) EXCEPT !.dels = Append(@, id)]

Settle(e, kind, connection, errorMessage) ==
    [e EXCEPT !.pc = "done",
              !.result = [kind |-> kind, connection |-> connection,
                          errorMessage |-> errorMessage, list |-> <<>>]]

-----------------------------------------------------------------------------
(* Error messages *)

FailedToCreatePrefix == "Failed to create connection: "
NoIdentityForCreateMessage ==
    "To create and use an API connection, you must have a managed identity configured on this logic app."
NoIdentityForAclMessage == "A managed identity is not configured on the logic app."
AclFailedMessage == "Acl creation failed for connection. Deleting the connection."
NoWriteCallbackMessage == "Callback for write connection is not passed in service."
ClientNotRegisteredMessage(clientName) ==
    "The connection creation client for " \o clientName \o " is not registered"

\* the error a failed request of the environment carries
RequestError(operation) == operation \o " failed"

-----------------------------------------------------------------------------
(* The code between two awaits, as functions from execution to execution *)

\* the catch block of createAndAuthorizeOAuthConnection without its deleteConnection call
OAuthCatchWithoutDelete(e, error) ==
    Settle(e, "resolved", NoConnection, tryParseErrorMessage(error))

\* createAndAuthorizeOAuthConnection, catch block
OAuthCatch(e, error) ==
    Settle(deleteConnection(e, OAuthOp, call.connectionId),
           "resolved", NoConnection, tryParseErrorMessage(error))

\* createConnection returns the connection; in createAndAuthorizeOAuthConnection the
\* awaited createConnection resolved and the consent URL is requested
createConnectionReturn(e, connection) ==
    IF call.op = CreateConnectionOp
    THEN Settle(e, "resolved", connection, Undefined)
    ELSE Await([Ended(e, OAuthOp, "ok", "createConnection") EXCEPT !.connection = connection],
               OAuthOp, "fetchConsentUrlForConnection", call.connectionId,
               "fetchConsentUrlForConnection")

\* createConnection's catch block without its deleteConnection call
createConnectionCatchWithoutDelete(e, error) ==
    LET errorMessage == FailedToCreatePrefix \o tryParseErrorMessage(error)
    IN  IF call.op = CreateConnectionOp
        THEN Settle(e, "rejected", NoConnection, errorMessage)
        ELSE Settle(Ended(e, OAuthOp, "fail", "createConnection"),
                    "rejected", NoConnection, errorMessage)

\* createConnection's catch block awaiting the delete before it rejects
createConnectionCatchAwaitingDelete(e, error) ==
    [deleteConnection(e, CreateConnectionOp, call.connectionId) EXCEPT !.pc = "deleteConnection"]

\* createConnection, catch block; createAndAuthorizeOAuthConnection awaits
\* createConnection outside its try block, so the rejection passes through it
createConnectionCatch(e, error) ==
    LET e1 == deleteConnection(e, CreateConnectionOp, call.connectionId)
        errorMessage == FailedToCreatePrefix \o tryParseErrorMessage(error)
    IN  IF call.op = CreateConnectionOp
        THEN Settle(e1, "rejected", NoConnection, errorMessage)
        ELSE Settle(Ended(e1, OAuthOp, "fail", "createConnection"),
                    "rejected", NoConnection, errorMessage)

\* the caller of _createConnectionAclIfNeeded testing the connection whatever
\* shouldTestConnection says
AclStepReturnThenTest(e) ==
    LET e1 == Ended(e, e.aclCaller, "ok", AclMethod)
    IN  CASE e.aclCaller = HubMethod ->
               Await(e1, HubMethod, "testConnection", <<e.connection.from>>, "testConnection")
          [] e.aclCaller = OAuthOp ->
               Await(e1, OAuthOp, "getConnection", e.connection.id, "getConnection")
          [] OTHER -> Settle(e1, "resolved", NoConnection, Undefined)

\* _createConnectionAclIfNeeded returned: what its caller does next
AclStepReturn(e) ==
    LET e1 == Ended(e, e.aclCaller, "ok", AclMethod)
    IN  CASE e.aclCaller = HubMethod ->
               IF e.shouldTestConnection
               THEN Await(e1, HubMethod, "testConnection", <<e.connection.from>>,
                          "testConnection")
               ELSE createConnectionReturn(e1, e.connection)
          [] e.aclCaller = OAuthOp ->
               Await(e1, OAuthOp, "getConnection", e.connection.id, "getConnection")
          [] OTHER -> Settle(e1, "resolved", NoConnection, Undefined)

\* _createConnectionAclIfNeeded threw: what its caller does with the error
AclStepThrow(e, error) ==
    LET e1 == Ended(e, e.aclCaller, "fail", AclMethod)
    IN  CASE e.aclCaller = HubMethod ->
               createConnectionCatch(
                   deleteConnection(e1, HubMethod,
                                    getAzureConnectionRequestPath(LastSegment(call.connectionId))),
                   AclFailedMessage)
          [] e.aclCaller = OAuthOp -> OAuthCatch(e1, error)
          [] OTHER -> Settle(e1, "rejected", NoConnection, error)

\* _createConnectionAclIfNeeded up to the read of the access policies
createConnectionAclIfNeeded(e, caller, connection, identityId) ==
    LET e1 == [Log(e, caller, "start", AclMethod, connection.id)
                 EXCEPT !.aclCaller = caller, !.aclConnection = connection,
                        !.aclIdentityId = identityId]
    IN  IF ~isArmResourceId(connection.id) \/ ~opts.workflowAppDetails.present
        THEN AclStepReturn(e1)
        ELSE IF ~isIdentityAssociatedWithLogicApp(opts.workflowAppDetails.identity)
        THEN AclStepThrow(e1, NoIdentityForAclMessage)
        ELSE Await(e1, AclMethod, "_getConnectionAcls", connection.id, "_getConnectionAcls")

\* _createConnectionAclIfNeeded once the access policies were read
reconcileConnectionAcl(e0, connectionAcls) ==
    LET e == [e0 EXCEPT !.connectionAcls = connectionAcls]
        tenantId == opts.apiHubServiceDetails.tenantId
        identityDetailsForApiHubAuth ==
            getIdentityDetailsForApiHubAuth(opts.workflowAppDetails.identity, tenantId,
                                            e.aclIdentityId)
    IN  IF ~AclExists(connectionAcls, identityDetailsForApiHubAuth, tenantId)
        THEN Await([e EXCEPT !.aclPolicy =
                        AccessPolicy(opts.workflowAppDetails.appName,
                                     identityDetailsForApiHubAuth,
                                     <<e.aclCaller, e.aclIdentityId>>)],
                   AclMethod, "_createAccessPolicyInConnection", e.aclConnection.id,
                   "_createAccessPolicyInConnection")
        ELSE AclStepReturn(e)

\* _createConnectionInApiHub without the check of the managed identity
createConnectionInApiHubWithoutGate(e) ==
    Await(e, HubMethod, "createConnectionInApiHub",
          <<LastSegment(call.connectionId)>>, "createConnectionInApiHub")

\* _createConnectionInApiHub up to the create request
createConnectionInApiHub(e) ==
    IF /\ opts.workflowAppDetails.present
       /\ ~isIdentityAssociatedWithLogicApp(opts.workflowAppDetails.identity)
    THEN createConnectionCatch(e, NoIdentityForCreateMessage)
    ELSE Await(e, HubMethod, "createConnectionInApiHub",
               <<LastSegment(call.connectionId)>>, "createConnectionInApiHub")

\* A string whose characters matter is the sequence of its characters. The names of the
\* connections and of the parameters the designer passes:
Characters(value) ==
    CASE value = "c1" -> <<"c", "1">>
      [] value = "x" -> <<"x">>
      [] value = "x_" -> <<"x", "_">>
      [] value = "y" -> <<"y">>
      [] value = "_y" -> <<"_", "y">>
      [] value = "api-key" -> <<"a", "p", "i", "-", "k", "e", "y">>
      [] value = "host_name" -> <<"h", "o", "s", "t", "_", "n", "a", "m", "e">>
      [] value = "secret" -> <<"s", "e", "c", "r", "e", "t">>
      [] value = "functionAppKey" ->
           <<"f", "u", "n", "c", "t", "i", "o", "n", "A", "p", "p", "K", "e", "y">>
      [] value = "SubscriptionKey" ->
           <<"S", "u", "b", "s", "c", "r", "i", "p", "t", "i", "o", "n", "K", "e", "y">>
      [] value = "@appsetting('" ->
           <<"@", "a", "p", "p", "s", "e", "t", "t", "i", "n", "g", "(", "'">>
      [] value = "')" -> <<"'", ")">>

RECURSIVE replace(_, _, _)
\* value.replace(/pattern/g, replacement) for a pattern of one character
replace(value, pattern, replacement) ==
    IF value = <<>>
    THEN <<>>
    ELSE (IF Head(value) = pattern THEN replacement ELSE <<Head(value)>>)
         \o replace(Tail(value), pattern, replacement)

escapeSpecialChars(value) ==
    LET escapedUnderscore == replace(value, "_", <<"_", "_">>)
    IN  replace(escapedUnderscore, "-", <<"_", "1">>)

\* `@appsetting('${appSettingName}')`
AppSettingReference(appSettingName) ==
    Characters("@appsetting('") \o appSettingName \o Characters("')")

AppConfiguration == "AppConfiguration"

\* an object without properties
EmptyObject == [property \in {} |-> <<>>]

\* object[property] = value
SetProperty(object, property, value) ==
    [p \in DOMAIN object \cup {property} |-> IF p = property THEN value ELSE object[p]]

\* safeSetObjectPropertyValue of the utilities sets the property at the end of the path;
\* the object is kept as the map from paths to values
safeSetObjectPropertyValue(target, path, value) == SetProperty(target, path, value)

\* createCopy of the utilities: a copy that shares nothing with the original
createCopy(original) == original

\* connectionParameters?.[parameterKey] of a connectionInfo whose parameters are
\* [key, value, parameterSource, propertyPath], in the order of Object.keys
ParameterValue(connectionParameters, parameterKey) ==
    LET found == { i \in DOMAIN connectionParameters :
                     connectionParameters[i].key = parameterKey }
    IN  IF found = {} THEN <<>> ELSE connectionParameters[CHOOSE i \in found : TRUE].value

RECURSIVE setParameterValues(_, _, _)
\* the loop of convertToServiceProviderConnectionsData over Object.keys(parameterValues)
setParameterValues(converted, connectionKey, parameters) ==
    IF parameters = <<>>
    THEN converted
    ELSE LET connectionParameter == Head(parameters)
             parameterKey == connectionParameter.key
             rawValue == connectionParameter.value
             fromAppConfiguration == connectionParameter.parameterSource = AppConfiguration
             appSettingName == escapeSpecialChars(Characters(connectionKey)) \o <<"_">>
                               \o escapeSpecialChars(Characters(parameterKey))
             parameterValue == IF fromAppConfiguration
                               THEN AppSettingReference(appSettingName)
                               ELSE rawValue
             path == connectionParameter.propertyPath \o <<parameterKey>>
         IN  setParameterValues(
                 [converted EXCEPT
                    !.connectionAndSettings.settings =
                        IF fromAppConfiguration
                        THEN SetProperty(@, appSettingName, rawValue)
                        ELSE @,
                    !.connectionAndSettings.connectionData.parameterValues =
                        safeSetObjectPropertyValue(@, path, parameterValue),
                    !.rawConnection.parameterValues =
                        safeSetObjectPropertyValue(@, path, rawValue)],
                 connectionKey, Tail(parameters))

\* the three local representations: what is handed to writeConnection holds the key, the
\* model of the representation (named after its TypeScript interface), the connection
\* data, the app settings and the location
convertToServiceProviderConnectionsData(connectionKey, connectorId, connectionInfo) ==
    LET connectionData == [displayName |-> connectionInfo.displayName,
                           serviceProvider |-> [id |-> connectorId],
                           parameterValues |-> EmptyObject]
        connectionsData == [connectionKey |-> connectionKey,
                            model |-> "ServiceProviderConnectionModel",
                            connectionData |-> connectionData,
                            settings |-> connectionInfo.appSettings,
                            pathLocation |-> <<serviceProviderLocation>>]
        rawConnection == createCopy(connectionsData.connectionData)
    IN  setParameterValues([connectionAndSettings |-> connectionsData,
                            rawConnection |-> rawConnection],
                           connectionKey, connectionInfo.connectionParameters)

\* the function connection with the function key written into connectionData
convertToFunctionsConnectionsDataRaw(connectionKey, connectionInfo) ==
    LET functionAppKey == ParameterValue(connectionInfo.connectionParameters, "authentication")
        appSettingName == escapeSpecialChars(Characters(connectionKey)) \o <<"_">>
                          \o Characters("functionAppKey")
    IN  [connectionKey |-> connectionKey, model |-> "FunctionsConnectionModel",
         connectionData |-> [displayName |-> connectionInfo.displayName,
                             serviceProvider |-> [id |-> NoSegments],
                             authentication |-> [value |-> functionAppKey]],
         settings |-> SetProperty(EmptyObject, appSettingName, functionAppKey),
         pathLocation |-> <<functionsLocation>>]

convertToFunctionsConnectionsData(connectionKey, connectionInfo) ==
    LET functionAppKey == ParameterValue(connectionInfo.connectionParameters, "authentication")
        appSettingName == escapeSpecialChars(Characters(connectionKey)) \o <<"_">>
                          \o Characters("functionAppKey")
    IN  [connectionKey |-> connectionKey, model |-> "FunctionsConnectionModel",
         connectionData |-> [displayName |-> connectionInfo.displayName,
                             serviceProvider |-> [id |-> NoSegments],
                             authentication |->
                                 [value |-> AppSettingReference(appSettingName)]],
         settings |-> SetProperty(EmptyObject, appSettingName, functionAppKey),
         pathLocation |-> <<functionsLocation>>]

convertToApimConnectionsData(connectionKey, connectionInfo) ==
    LET subscriptionKey == ParameterValue(connectionInfo.connectionParameters, "subscriptionKey")
        appSettingName == escapeSpecialChars(Characters(connectionKey)) \o <<"_">>
                          \o Characters("SubscriptionKey")
    IN  [connectionKey |-> connectionKey, model |-> "APIManagementConnectionModel",
         connectionData |-> [displayName |-> connectionInfo.displayName,
                             serviceProvider |-> [id |-> NoSegments],
                             subscriptionKey |-> AppSettingReference(appSettingName),
                             authentication |->
                                 [value |-> ParameterValue(connectionInfo.connectionParameters,
                                                           "authentication")]],
         settings |-> SetProperty(EmptyObject, appSettingName, subscriptionKey),
         pathLocation |-> <<apimLocation>>]

\* the connectionInfo the designer passes to createConnection
ConnectionInfo ==
    [displayName |-> call.displayName, connectionParameters |-> call.connectionParameters,
     appSettings |-> EmptyObject]

\* every connection is stored as a service-provider connection
getConnectionsDataOfServiceProvider(connectionName) ==
    convertToServiceProviderConnectionsData(connectionName, call.connectorId,
                                            ConnectionInfo).connectionAndSettings

\* connectionsData of _getConnectionsConfiguration: the switch on the metadata type
getConnectionsData(connectionName) ==
    CASE call.connectionType = ConnectionTypeFunction ->
           convertToFunctionsConnectionsData(connectionName, ConnectionInfo)
      [] call.connectionType = ConnectionTypeApiManagement ->
           convertToApimConnectionsData(connectionName, ConnectionInfo)
      [] OTHER ->
           convertToServiceProviderConnectionsData(connectionName, call.connectorId,
                                                   ConnectionInfo).connectionAndSettings

\* the connection _getConnectionsConfiguration builds for the connection type
LocalConnection(connectionName) ==
    LET connectionsData == getConnectionsData(connectionName)
    IN  CASE call.connectionType = ConnectionTypeFunction ->
               convertFunctionsConnectionDataToConnection(
                   connectionsData.connectionKey, connectionsData.connectionData)
          [] call.connectionType = ConnectionTypeApiManagement ->
               convertApimConnectionDataToConnection(
                   connectionsData.connectionKey, connectionsData.connectionData)
          [] OTHER ->
               convertServiceProviderConnectionDataToConnection(
                   connectionsData.connectionKey, connectionsData.connectionData)

\* pathLocation of the data handed to writeConnection
PathLocation == getConnectionsData(LastSegment(call.connectionId)).pathLocation

\* createConnectionInLocal: await this._options.writeConnection(connectionsData)
writeLocalConnection(e) ==
    Await([e EXCEPT !.connection = LocalConnection(LastSegment(call.connectionId)),
                    !.connectionsData = getConnectionsData(LastSegment(call.connectionId))],
          LocalMethod, "writeConnection", PathLocation, "writeConnection")

\* createConnectionInLocal writing the connection without the test request
createConnectionInLocalWithoutTest(e) ==
    IF ~opts.writeConnection
    THEN createConnectionCatch(e, NoWriteCallbackMessage)
    ELSE writeLocalConnection(e)

\* createConnectionInLocal from the writeConnection check on, with
\* _getConnectionsConfiguration up to the test request of a service provider
createConnectionInLocalConfigure(e) ==
    IF ~opts.writeConnection
    THEN createConnectionCatch(e, NoWriteCallbackMessage)
    ELSE IF /\ call.connectionType \notin {ConnectionTypeFunction, ConnectionTypeApiManagement}
            /\ call.testConnectionUrl
    THEN Await(e, ConfigMethod, "_testServiceProviderConnection", call.connectorId,
               "_testServiceProviderConnection")
    ELSE writeLocalConnection(e)

\* createConnectionInLocal up to the connection creation client
createConnectionInLocal(e) ==
    IF Truthy(call.connectionCreationClient)
    THEN IF call.connectionCreationClient \in opts.connectionCreationClients
         THEN Await(e, LocalMethod, "connectionCreationFunc",
                    <<LastSegment(call.connectionId)>>, "connectionCreationFunc")
         ELSE createConnectionCatch(e, ClientNotRegisteredMessage(call.connectionCreationClient))
    ELSE createConnectionInLocalConfigure(e)

\* createConnection creating every connection in the local store
createConnectionInLocalOnly(e, shouldTestConnection) ==
    createConnectionInLocal([e EXCEPT !.shouldTestConnection = shouldTestConnection])

\* createConnection up to its first await
createConnection(e, shouldTestConnection) ==
    LET e1 == [e EXCEPT !.shouldTestConnection = shouldTestConnection]
    IN  IF isArmResourceId(call.connectorId)
        THEN createConnectionInApiHub(e1)
        ELSE createConnectionInLocal(e1)

\* createAndAuthorizeOAuthConnection after the login popup answered
\* atob() of the popup's error text
atob(text) ==
    CASE text = "ZGVuaWVk" -> "denied"
      [] OTHER -> text

afterLogin(e0, loginResponse) ==
    LET e == [e0 EXCEPT !.loginResponse = loginResponse] IN
    IF Truthy(loginResponse.error)
    THEN OAuthCatch(e, atob(loginResponse.error))
    ELSE IF Truthy(loginResponse.code)
    THEN Await(e, OAuthOp, "confirmConsentCodeForConnection", <<loginResponse.code>>,
               "confirmConsentCodeForConnection")
    ELSE createConnectionAclIfNeeded(e, OAuthOp, e.connection, Undefined)

\* localConnections[location] || {}
LocationEntries(localConnections, location) ==
    IF location \in localConnections.missing THEN <<>> ELSE localConnections[location]

ServiceProviderEntry(entry) ==
    convertServiceProviderConnectionDataToConnection(entry.key, entry.data)
FunctionEntry(entry) == convertFunctionsConnectionDataToConnection(entry.key, entry.data)
ApimEntry(entry) == convertApimConnectionDataToConnection(entry.key, entry.data)

\* the local part of the list getConnections returns: Object.keys(...).map(...) of
\* each location, spread in the order of the code
LocalConnectionList(localConnections) ==
    LET serviceProviderConnections == LocationEntries(localConnections, serviceProviderLocation)
        functionConnections == LocationEntries(localConnections, functionsLocation)
        apimConnections == LocationEntries(localConnections, apimLocation)
    IN  [i \in DOMAIN serviceProviderConnections |->
            ServiceProviderEntry(serviceProviderConnections[i])]
        \o [i \in DOMAIN functionConnections |-> FunctionEntry(functionConnections[i])]
        \o [i \in DOMAIN apimConnections |-> ApimEntry(apimConnections[i])]

\* the list with the API-hub connections first
getConnectionsResultHubFirst(localConnections, apiHubConnections) ==
    apiHubConnections \o LocalConnectionList(localConnections)

\* getConnections once Promise.all resolved
getConnectionsResult(localConnections, apiHubConnections) ==
    LocalConnectionList(localConnections) \o apiHubConnections

\* getConnections resolving as soon as the local read resolved
afterReadOfLocalStore(e) ==
    IF e.localRead = "ok"
    THEN [e EXCEPT !.pc = "done",
                   !.result = [NoResult EXCEPT !.kind = "resolved",
                                               !.list = getConnectionsResult(e.localData, e.hubData)]]
    ELSE e

\* getConnections after one of its two reads resolved
afterRead(e) ==
    IF e.localRead = "ok" /\ e.hubRead = "ok"
    THEN [e EXCEPT !.pc = "done",
                   !.result = [NoResult EXCEPT !.kind = "resolved",
                                               !.list = getConnectionsResult(e.localData, e.hubData)]]
    ELSE e

-----------------------------------------------------------------------------
(* Initial state *)

NoWorkflowApp == [present |-> FALSE, appName |-> Undefined, identity |-> NoIdentity]
WorkflowApp(identity) == [present |-> TRUE, appName |-> AppName, identity |-> identity]

ServiceOptions(workflowAppDetails, writeConnection) ==
    [apiHubServiceDetails |-> [tenantId |-> ServiceTenantId],
     workflowAppDetails |-> workflowAppDetails, writeConnection |-> writeConnection,
     connectionCreationClients |-> {"registered"}]

\* the options a service is constructed with: every identity with the writeConnection
\* callback, and two of them without it
Options ==
    { ServiceOptions(w, TRUE) : w \in {NoWorkflowApp} \cup { WorkflowApp(i) : i \in Identities } }
    \cup { ServiceOptions(w, FALSE) :
             w \in {NoWorkflowApp,
                    WorkflowApp([type |-> SYSTEM_ASSIGNED, principalId |-> "sysP",
                                 tenantId |-> ServiceTenantId,
                                 userAssignedIdentities |-> <<>>])} }

Init ==
    /\ opts \in Options
    /\ srvConnections \in SUBSET ConnectionNames
    /\ srvAcls = [n \in ConnectionNames |-> {}]
    /\ connections = {}
    /\ allConnectionsInitialized = FALSE
    /\ call = NoCall
    /\ ex = [FreshExecution EXCEPT !.pc = "idle"]
    /\ pendingDeletes = {}
    /\ writtenConnections = <<>>
    /\ nCalls = 0

-----------------------------------------------------------------------------
(* Calls the designer makes *)

ConnectionIds == { <<"connections", n>> : n \in ConnectionNames }

Parameter(key, value, parameterSource, propertyPath) ==
    [key |-> key, value |-> value, parameterSource |-> parameterSource,
     propertyPath |-> propertyPath]

\* the parameters the designer collects for a connection of that type; values are
\* sequences of characters
ConnectionParameters(connectionType) ==
    CASE connectionType = ConnectionTypeFunction ->
           <<Parameter("authentication", <<"f", "1">>, Undefined, <<>>)>>
      [] connectionType = ConnectionTypeApiManagement ->
           <<Parameter("subscriptionKey", <<"a", "1">>, Undefined, <<>>),
             Parameter("authentication", <<"n">>, Undefined, <<>>)>>
      [] OTHER ->
           <<Parameter("api-key", <<"s", "1">>, AppConfiguration, <<>>),
             Parameter("host_name", <<"h">>, Undefined, <<>>),
             Parameter("secret", <<"s", "2">>, AppConfiguration, <<"authProvider">>)>>

\* connection and parameter names with underscores: <<connection name, parameter key,
\* value of the parameter>>
UnderscoreNames == { <<"x", "_y", <<"s", "3">>>>, <<"x_", "y", <<"s", "4">>>> }

CreateConnectionCalls ==
    { [NoCall EXCEPT !.op = CreateConnectionOp, !.connectionId = id,
                     !.connectorId = ArmConnectorId, !.shouldTestConnection = t] :
        id \in ConnectionIds, t \in BOOLEAN }
    \cup
    { [NoCall EXCEPT !.op = CreateConnectionOp, !.connectionId = id,
                     !.connectorId = k[1], !.connectionType = k[2],
                     !.testConnectionUrl = k[3], !.connectionCreationClient = k[4],
                     !.connectionParameters = ConnectionParameters(k[2])] :
        id \in ConnectionIds,
        k \in { <<ServiceProviderConnectorId, ConnectionTypeServiceProvider, TRUE, Undefined>>,
                <<ServiceProviderConnectorId, ConnectionTypeServiceProvider, TRUE, "registered">>,
                <<ServiceProviderConnectorId, Undefined, FALSE, Undefined>>,
                <<ServiceProviderConnectorId, Undefined, FALSE, "unregistered">>,
                <<azureFunctionConnectorId, ConnectionTypeFunction, FALSE, Undefined>>,
                <<ServiceProviderConnectorId, ConnectionTypeFunction, FALSE, Undefined>>,
                <<apiManagementConnectorId, ConnectionTypeApiManagement, FALSE, Undefined>> } }
    \cup
    { [NoCall EXCEPT !.op = CreateConnectionOp, !.connectionId = <<"connections", k[1]>>,
                     !.connectorId = ServiceProviderConnectorId,
                     !.connectionType = ConnectionTypeServiceProvider,
                     !.connectionParameters = <<Parameter(k[2], k[3], AppConfiguration, <<>>)>>] :
        k \in UnderscoreNames }

OAuthCalls ==
    { [NoCall EXCEPT !.op = OAuthOp, !.connectionId = id, !.connectorId = k] :
        id \in ConnectionIds, k \in {ArmConnectorId, ServiceProviderConnectorId} }

SetupCalls ==
    { [NoCall EXCEPT !.op = SetupOp, !.connection = c, !.identityId = i] :
        c \in { HubConnection(n, "listed") : n \in ConnectionNames }, i \in IdentityIds }
    \cup
    { [NoCall EXCEPT !.op = SetupOp,
                     !.connection = convertServiceProviderConnectionDataToConnection(
                         n, [displayName |-> Undefined,
                             serviceProvider |-> [id |-> ServiceProviderConnectorId]])] :
        n \in ConnectionNames }

GetConnectionsCalls ==
    { [NoCall EXCEPT !.op = GetConnectionsOp, !.connectorId = k] :
        k \in {NoSegments, ArmConnectorId} }

Calls == CreateConnectionCalls \cup OAuthCalls \cup SetupCalls \cup GetConnectionsCalls

-----------------------------------------------------------------------------
(* Actions *)

NewDeletes(old, new) ==
    { [id |-> new.dels[i], call |-> nCalls, n |-> i] : i \in (Len(old.dels) + 1)..Len(new.dels) }

\* the execution moves on; the delete requests it fired are in flight
Step(e) ==
    /\ ex' = e
    /\ pendingDeletes' = pendingDeletes \cup NewDeletes(ex, e)

Server == <<srvConnections, srvAcls>>
Cache == <<connections, allConnectionsInitialized>>

\* the designer calls a method of the service; calls of one designer session do not overlap
Invoke ==
    /\ ex.pc \in {"idle", "done"}
    /\ nCalls < MaxCalls
    /\ \E c \in Calls : call' = c
    /\ ex' = FreshExecution
    /\ nCalls' = nCalls + 1
    /\ UNCHANGED <<opts, writtenConnections, Server, Cache, pendingDeletes>>

CreateConnectionStarts ==
    /\ ex.pc = "invoked"
    /\ call.op = CreateConnectionOp
    /\ Step(createConnection(ex, call.shouldTestConnection))
    /\ UNCHANGED <<opts, writtenConnections, Server, Cache, call, nCalls>>

CreateConnectionInApiHubReturns ==
    /\ ex.pc = "createConnectionInApiHub"
    /\ \E ok \in BOOLEAN :
        IF ok
        THEN LET connection == HubConnection(LastSegment(call.connectionId), "created")
                 e1 == [Ended(ex, HubMethod, "ok", "createConnectionInApiHub")
                          EXCEPT !.connection = connection]
             IN  /\ srvConnections' = srvConnections \cup {connection.name}
                 /\ Step(createConnectionAclIfNeeded(e1, HubMethod, connection, Undefined))
        ELSE /\ UNCHANGED srvConnections
             /\ Step(createConnectionCatch(
                        Ended(ex, HubMethod, "fail", "createConnectionInApiHub"),
                        RequestError("createConnectionInApiHub")))
    /\ UNCHANGED <<opts, writtenConnections, srvAcls, Cache, call, nCalls>>

GetConnectionAclsReturns ==
    /\ ex.pc = "_getConnectionAcls"
    /\ \E ok \in BOOLEAN :
        IF ok
        THEN Step(reconcileConnectionAcl(Ended(ex, AclMethod, "ok", "_getConnectionAcls"),
                                         srvAcls[ex.aclConnection.name]))
        ELSE Step(AclStepThrow(Ended(ex, AclMethod, "fail", "_getConnectionAcls"),
                               RequestError("_getConnectionAcls")))
    /\ UNCHANGED <<opts, writtenConnections, Server, Cache, call, nCalls>>

CreateAccessPolicyReturns ==
    /\ ex.pc = "_createAccessPolicyInConnection"
    /\ \E ok \in BOOLEAN :
        IF ok
        THEN /\ srvAcls' = [srvAcls EXCEPT ![ex.aclConnection.name] =
                                StorePolicy(@, ex.aclPolicy)]
             /\ Step(AclStepReturn(Ended(ex, AclMethod, "ok", "_createAccessPolicyInConnection")))
        ELSE /\ UNCHANGED srvAcls
             /\ Step(AclStepReturn(Ended(ex, AclMethod, "fail", "_createAccessPolicyInConnection")))
    /\ UNCHANGED <<opts, writtenConnections, srvConnections, Cache, call, nCalls>>

TestConnectionReturns ==
    /\ ex.pc = "testConnection"
    /\ \E ok \in BOOLEAN :
        IF ok
        THEN Step(createConnectionReturn(Ended(ex, HubMethod, "ok", "testConnection"),
                                         ex.connection))
        ELSE Step(createConnectionCatch(Ended(ex, HubMethod, "fail", "testConnection"),
                                        RequestError("testConnection")))
    /\ UNCHANGED <<opts, writtenConnections, Server, Cache, call, nCalls>>

ConnectionCreationFuncReturns ==
    /\ ex.pc = "connectionCreationFunc"
    /\ \E ok \in BOOLEAN :
        IF ok
        THEN Step(createConnectionInLocalConfigure(
                      Ended(ex, LocalMethod, "ok", "connectionCreationFunc")))
        ELSE Step(createConnectionCatch(
                      Ended(ex, LocalMethod, "fail", "connectionCreationFunc"),
                      RequestError("connectionCreationFunc")))
    /\ UNCHANGED <<opts, writtenConnections, Server, Cache, call, nCalls>>

\* the response of the test request: none, or one with an HTTP status
TestResponses == {0, 200, 204, 300, 500}

TestServiceProviderConnectionReturns ==
    /\ ex.pc = "_testServiceProviderConnection"
    /\ \E status \in TestResponses :
        IF ~(status = 0 \/ status < 200 \/ status >= 300)
        THEN Step(writeLocalConnection(
                      [Ended(ex, ConfigMethod, "ok", "_testServiceProviderConnection")
                         EXCEPT !.testResponse = status]))
        ELSE Step(createConnectionCatch(
                      [Ended(ex, ConfigMethod, "fail", "_testServiceProviderConnection")
                         EXCEPT !.testResponse = status],
                      RequestError("_testServiceProviderConnection")))
    /\ UNCHANGED <<opts, writtenConnections, Server, Cache, call, nCalls>>

WriteConnectionReturns ==
    /\ ex.pc = "writeConnection"
    /\ \E ok \in BOOLEAN :
        IF ok
        THEN /\ connections' = connections \cup {ex.connection.id}
             /\ writtenConnections' = Append(writtenConnections, ex.connectionsData)
             /\ Step(createConnectionReturn(Ended(ex, LocalMethod, "ok", "writeConnection"),
                                            ex.connection))
        ELSE /\ UNCHANGED <<connections, writtenConnections>>
             /\ Step(createConnectionCatch(Ended(ex, LocalMethod, "fail", "writeConnection"),
                                           RequestError("writeConnection")))
    /\ UNCHANGED <<opts, Server, allConnectionsInitialized, call, nCalls>>

SetupConnectionIfNeededStarts ==
    /\ ex.pc = "invoked"
    /\ call.op = SetupOp
    /\ Step(createConnectionAclIfNeeded(ex, SetupOp, call.connection, call.identityId))
    /\ UNCHANGED <<opts, writtenConnections, Server, Cache, call, nCalls>>

\* a delete request is answered; on success the connection is gone from API hub
\* and from the cache
DeleteConnectionReturns ==
    /\ \E d \in pendingDeletes, ok \in BOOLEAN :
        /\ pendingDeletes' = pendingDeletes \ {d}
        /\ IF ok
           THEN /\ srvConnections' = srvConnections \ {LastSegment(d.id)}
                /\ srvAcls' = [srvAcls EXCEPT ![LastSegment(d.id)] = {}]
                /\ connections' = connections \ {d.id}
           ELSE UNCHANGED <<Server, connections>>
    /\ UNCHANGED <<opts, writtenConnections, allConnectionsInitialized, call, ex, nCalls>>

CreateAndAuthorizeOAuthConnectionStarts ==
    /\ ex.pc = "invoked"
    /\ call.op = OAuthOp
    /\ Step(Await(ex, OAuthOp, "getConnector", call.connectorId, "getConnector"))
    /\ UNCHANGED <<opts, writtenConnections, Server, Cache, call, nCalls>>

GetConnectorReturns ==
    /\ ex.pc = "getConnector"
    /\ \E ok \in BOOLEAN :
        IF ok
        THEN Step(createConnection(
                      Log(Ended(ex, OAuthOp, "ok", "getConnector"),
                          OAuthOp, "start", "createConnection", call.connectionId),
                      FALSE))
        ELSE Step(Settle(Ended(ex, OAuthOp, "fail", "getConnector"),
                         "rejected", NoConnection, RequestError("getConnector")))
    /\ UNCHANGED <<opts, writtenConnections, Server, Cache, call, nCalls>>

FetchConsentUrlReturns ==
    /\ ex.pc = "fetchConsentUrlForConnection"
    /\ \E ok \in BOOLEAN :
        IF ok
        THEN LET e1 == Ended(ex, OAuthOp, "ok", "fetchConsentUrlForConnection")
                 e2 == Ended(Log(e1, OAuthOp, "start", "openLoginPopup", NoSegments),
                             OAuthOp, "ok", "openLoginPopup")
             IN  Step(Await(e2, OAuthOp, "loginPromise", NoSegments, "loginPromise"))
        ELSE Step(OAuthCatch(Ended(ex, OAuthOp, "fail", "fetchConsentUrlForConnection"),
                             RequestError("fetchConsentUrlForConnection")))
    /\ UNCHANGED <<opts, writtenConnections, Server, Cache, call, nCalls>>

\* what the login popup can answer: a code, an error, both or neither
LoginResponses ==
    [code : {Undefined, "code1"}, error : {Undefined, "ZGVuaWVk"}]

LoginPromiseSettles ==
    /\ ex.pc = "loginPromise"
    /\ \/ \E loginResponse \in LoginResponses :
            Step(afterLogin(Ended(ex, OAuthOp, "ok", "loginPromise"), loginResponse))
       \/ Step(OAuthCatch(Ended(ex, OAuthOp, "fail", "loginPromise"),
                          RequestError("loginPromise")))
    /\ UNCHANGED <<opts, writtenConnections, Server, Cache, call, nCalls>>

ConfirmConsentCodeReturns ==
    /\ ex.pc = "confirmConsentCodeForConnection"
    /\ \E ok \in BOOLEAN :
        IF ok
        THEN Step(createConnectionAclIfNeeded(
                      Ended(ex, OAuthOp, "ok", "confirmConsentCodeForConnection"),
                      OAuthOp, ex.connection, Undefined))
        ELSE Step(OAuthCatch(Ended(ex, OAuthOp, "fail", "confirmConsentCodeForConnection"),
                             RequestError("confirmConsentCodeForConnection")))
    /\ UNCHANGED <<opts, writtenConnections, Server, Cache, call, nCalls>>

GetConnectionReturns ==
    /\ ex.pc = "getConnection"
    /\ \E ok \in BOOLEAN :
        IF ok
        THEN Step(Await([Ended(ex, OAuthOp, "ok", "getConnection")
                           EXCEPT !.fetched = [ex.connection EXCEPT !.from = "fetched"]],
                        OAuthOp, "testConnection", <<"fetched">>, "testFetchedConnection"))
        ELSE Step(OAuthCatch(Ended(ex, OAuthOp, "fail", "getConnection"),
                             RequestError("getConnection")))
    /\ UNCHANGED <<opts, writtenConnections, Server, Cache, call, nCalls>>

TestFetchedConnectionReturns ==
    /\ ex.pc = "testFetchedConnection"
    /\ \E ok \in BOOLEAN :
        IF ok
        THEN Step(Settle(Ended(ex, OAuthOp, "ok", "testConnection"),
                         "resolved", ex.fetched, Undefined))
        ELSE Step(OAuthCatch(Ended(ex, OAuthOp, "fail", "testConnection"),
                             RequestError("testConnection")))
    /\ UNCHANGED <<opts, writtenConnections, Server, Cache, call, nCalls>>

\* what readConnections can return: the three locations of the local store, each
\* missing or a list of entries
LocalEntry(key, connectorId) ==
    [key |-> key, data |-> [displayName |-> key, serviceProvider |-> [id |-> connectorId]]]

LocalStores ==
    { [NoLocalData EXCEPT !.missing =
          {serviceProviderLocation, functionsLocation, apimLocation}],
      NoLocalData,
      [NoLocalData EXCEPT
          !.serviceProviderConnections =
              << LocalEntry("k1", ServiceProviderConnectorId),
                 LocalEntry("k2", ServiceProviderConnectorId) >>,
          !.missing = {functionsLocation, apimLocation}],
      [NoLocalData EXCEPT
          !.functionConnections = << LocalEntry("k1", NoSegments) >>,
          !.apiManagementConnections = << LocalEntry("k1", NoSegments) >>,
          !.missing = {serviceProviderLocation}],
      [NoLocalData EXCEPT
          !.serviceProviderConnections = << LocalEntry("k2", ServiceProviderConnectorId) >>,
          !.functionConnections = << LocalEntry("k1", NoSegments) >>,
          !.apiManagementConnections = << LocalEntry("k1", NoSegments) >>] }

\* what getConnectionsInApiHub can return
HubLists ==
    { <<>>, << HubConnection("c1", "listed") >>,
      << HubConnection("c2", "listed"), HubConnection("c1", "listed") >> }

GetConnectionsStarts ==
    /\ ex.pc = "invoked"
    /\ call.op = GetConnectionsOp
    /\ IF call.connectorId /= NoSegments
       THEN Step(Await(ex, GetConnectionsOp, "getConnectionsForConnector", call.connectorId,
                       "getConnectionsForConnector"))
       ELSE Step([Log(Log(ex, GetConnectionsOp, "start", "readConnections", NoSegments),
                      GetConnectionsOp, "start", "getConnectionsInApiHub", NoSegments)
                    EXCEPT !.pc = "Promise.all", !.localRead = "pending",
                           !.hubRead = "pending"])
    /\ UNCHANGED <<opts, writtenConnections, Server, Cache, call, nCalls>>

GetConnectionsForConnectorReturns ==
    /\ ex.pc = "getConnectionsForConnector"
    /\ \/ \E list \in HubLists :
            Step([Ended(ex, GetConnectionsOp, "ok", "getConnectionsForConnector")
                    EXCEPT !.pc = "done",
                           !.result = [NoResult EXCEPT !.kind = "resolved", !.list = list]])
       \/ Step(Settle(Ended(ex, GetConnectionsOp, "fail", "getConnectionsForConnector"),
                      "rejected", NoConnection, RequestError("getConnectionsForConnector")))
    /\ UNCHANGED <<opts, writtenConnections, Server, Cache, call, nCalls>>

\* the flag and the cache written as soon as getConnections has settled
GetConnectionsCachesWhenSettled(e) ==
    IF e.pc = "done"
    THEN /\ allConnectionsInitialized' = TRUE
         /\ connections' = connections \cup
                { c.id : c \in { LocalConnectionList(e.localData)[i] :
                                   i \in 1..Len(LocalConnectionList(e.localData)) } }
    ELSE UNCHANGED Cache

\* the continuation of getConnections after Promise.all: the flag and the cache
GetConnectionsCaches(e) ==
    IF e.result.kind = "resolved"
    THEN /\ allConnectionsInitialized' = TRUE
         /\ connections' = connections \cup
                { c.id : c \in { e.result.list[i] : i \in 1..Len(LocalConnectionList(e.localData)) } }
    ELSE UNCHANGED Cache

ReadConnectionsReturns ==
    /\ ex.pc = "Promise.all"
    /\ ex.localRead = "pending"
    /\ \/ \E data \in LocalStores :
            LET e1 == afterRead([Ended(ex, GetConnectionsOp, "ok", "readConnections")
                                   EXCEPT !.localRead = "ok", !.localData = data])
            IN  Step(e1) /\ GetConnectionsCaches(e1)
       \/ LET e1 == Settle(Ended(ex, GetConnectionsOp, "fail", "readConnections"),
                            "rejected", NoConnection, RequestError("readConnections"))
          IN  Step(e1) /\ GetConnectionsCaches(e1)
    /\ UNCHANGED <<opts, writtenConnections, Server, call, nCalls>>

GetConnectionsInApiHubReturns ==
    /\ ex.pc = "Promise.all"
    /\ ex.hubRead = "pending"
    /\ \/ \E list \in HubLists :
            LET e1 == afterRead([Ended(ex, GetConnectionsOp, "ok", "getConnectionsInApiHub")
                                   EXCEPT !.hubRead = "ok", !.hubData = list])
            IN  Step(e1) /\ GetConnectionsCaches(e1)
       \/ LET e1 == Settle(Ended(ex, GetConnectionsOp, "fail", "getConnectionsInApiHub"),
                            "rejected", NoConnection, RequestError("getConnectionsInApiHub"))
          IN  Step(e1) /\ GetConnectionsCaches(e1)
    /\ UNCHANGED <<opts, writtenConnections, Server, call, nCalls>>

Next ==
    \/ Invoke
    \/ CreateAndAuthorizeOAuthConnectionStarts
    \/ GetConnectorReturns
    \/ FetchConsentUrlReturns
    \/ LoginPromiseSettles
    \/ ConfirmConsentCodeReturns
    \/ GetConnectionReturns
    \/ TestFetchedConnectionReturns
    \/ GetConnectionsStarts
    \/ GetConnectionsForConnectorReturns
    \/ ReadConnectionsReturns
    \/ GetConnectionsInApiHubReturns
    \/ CreateConnectionStarts
    \/ CreateConnectionInApiHubReturns
    \/ GetConnectionAclsReturns
    \/ CreateAccessPolicyReturns
    \/ TestConnectionReturns
    \/ ConnectionCreationFuncReturns
    \/ TestServiceProviderConnectionReturns
    \/ WriteConnectionReturns
    \/ SetupConnectionIfNeededStarts
    \/ DeleteConnectionReturns

Spec == Init /\ [][Next]_vars

-----------------------------------------------------------------------------
(* Properties *)

Occurs(method, kind, operation) ==
    \E i \in DOMAIN ex.trace :
        /\ ex.trace[i][1] = method
        /\ ex.trace[i][2] = kind
        /\ ex.trace[i][3] = operation

\* positions of the trace at which a delete request was issued
FiredDeletes == { i \in DOMAIN ex.trace : ex.trace[i][3] = "deleteConnection" }

DeleteFiredBy(method, id) ==
    \E i \in FiredDeletes : ex.trace[i][1] = method /\ ex.trace[i][4] = id

\* createConnection runs for an ARM connector, called by the designer or by
\* createAndAuthorizeOAuthConnection
ArmCreateConnection ==
    /\ isArmResourceId(call.connectorId)
    /\ \/ call.op = CreateConnectionOp
       \/ Occurs(OAuthOp, "start", "createConnection")

CreatedInApiHub == Occurs(HubMethod, "ok", "createConnectionInApiHub")

C2_SingleDelete ==
    (call.op = CreateConnectionOp /\ ex.result.kind = "rejected")
    => Cardinality(FiredDeletes) <= 1

\* C3: createConnection: when the ACL creation for the connection just created failed
\* (the read of the access policies failed or the PUT of the access policy failed),
\* the connection is deleted and the call rejects instead of returning the connection.
C3_AclFailureRollsBack ==
    ( /\ call.op = CreateConnectionOp
      /\ isArmResourceId(call.connectorId)
      /\ ex.pc = "done"
      /\ CreatedInApiHub
      /\ \/ Occurs(AclMethod, "fail", "_getConnectionAcls")
         \/ Occurs(AclMethod, "fail", "_createAccessPolicyInConnection") )
    => /\ FiredDeletes /= {}
       /\ ex.result.kind = "rejected"

\* the messages a failed step can carry
ErrorMessages ==
    { RequestError(operation) :
        operation \in {"createConnectionInApiHub", "testConnection", "connectionCreationFunc",
                       "_testServiceProviderConnection", "writeConnection"} }
    \cup {NoIdentityForCreateMessage, AclFailedMessage, NoWriteCallbackMessage,
          ClientNotRegisteredMessage("unregistered")}

\* the call has been answered as a failed creation is answered
FailureAnswered(method) ==
    /\ ex.pc = "done"
    /\ ex.result.connection = NoConnection
    /\ IF method = CreateConnectionOp
       THEN /\ ex.result.kind = "rejected"
            /\ ex.result.errorMessage \in { FailedToCreatePrefix \o m : m \in ErrorMessages }
       ELSE /\ ex.result.kind = "resolved"
            /\ Truthy(ex.result.errorMessage)

\* C4: cleanup is best effort: as soon as the catch block of createConnection or of
\* createAndAuthorizeOAuthConnection has issued its delete request the caller has its
\* answer (the rejection 'Failed to create connection: <message>', respectively a
\* result with errorMessage), the delete not being awaited; and the answer of a delete
\* request, success or failure, changes nothing of the call: not its result, and no
\* further delete request is issued.
C4_BestEffortCleanup ==
    /\ [](\A i \in FiredDeletes :
            ex.trace[i][1] \in {CreateConnectionOp, OAuthOp} => FailureAnswered(ex.trace[i][1]))
    /\ [][(pendingDeletes' /= pendingDeletes /\ pendingDeletes' \subseteq pendingDeletes)
            => ex' = ex]_vars

\* the failed call is answered while its delete request is still in flight
C4_Witness ==
    /\ call.op = CreateConnectionOp
    /\ ex.result.kind = "rejected"
    /\ ex.result.errorMessage = FailedToCreatePrefix \o RequestError("testConnection")
    /\ \E d \in pendingDeletes : d.call = nCalls /\ d.id = call.connectionId

-----------------------------------------------------------------------------
(* OAuth flow *)

OAuthSteps ==
    << "getConnector", "createConnection", "fetchConsentUrlForConnection", "openLoginPopup",
       "loginPromise", "confirmConsentCodeForConnection", AclMethod, "getConnection",
       "testConnection" >>

StepNumber(operation) == CHOOSE k \in DOMAIN OAuthSteps : OAuthSteps[k] = operation

IsOAuthStepEvent(event) == event[1] = OAuthOp /\ event[2] /= "fire"

\* what createAndAuthorizeOAuthConnection itself started and saw end, in order
OAuthEvents == SelectSeq(ex.trace, IsOAuthStepEvent)

TestConnectionStarts ==
    { i \in DOMAIN ex.trace : ex.trace[i][2] = "start" /\ ex.trace[i][3] = "testConnection" }

\* C5: createAndAuthorizeOAuthConnection runs its steps strictly in the order get
\* connector, create connection, fetch consent URL, open login popup, wait for the
\* login result, confirm the consent code, ensure the ACL, fetch the connection, test
\* the connection: the first step started is the first of the list, every other step
\* is started right after the step before it in the list ended successfully, and
\* testConnection is invoked at most once, on the re-fetched connection.
C5_OAuthStepsInOrder ==
    call.op = OAuthOp =>
        /\ \A i \in DOMAIN OAuthEvents :
              OAuthEvents[i][2] = "start" =>
                  IF i = 1
                  THEN OAuthEvents[i][3] = OAuthSteps[1]
                  ELSE /\ OAuthEvents[i - 1][2] = "ok"
                       /\ StepNumber(OAuthEvents[i][3]) = StepNumber(OAuthEvents[i - 1][3]) + 1
        /\ Cardinality(TestConnectionStarts) <= 1
        /\ \A i \in TestConnectionStarts :
              /\ ex.trace[i][4] = <<"fetched">>
              /\ Occurs(OAuthOp, "ok", "getConnection")

ConsentConfirmed(code) ==
    /\ \E i \in DOMAIN ex.trace :
          ex.trace[i] = <<OAuthOp, "start", "confirmConsentCodeForConnection", <<code>>>>
    /\ Occurs(OAuthOp, "ok", "confirmConsentCodeForConnection")

\* C6: createAndAuthorizeOAuthConnection returns a result holding a connection only
\* when the login popup returned an authorization code and no error, and
\* confirmConsentCodeForConnection completed successfully for that code.
C6_ConnectionOnlyAfterConsent ==
    (call.op = OAuthOp /\ ex.result.kind = "resolved" /\ ex.result.connection /= NoConnection)
    => /\ Truthy(ex.loginResponse.code)
       /\ ~Truthy(ex.loginResponse.error)
       /\ ConsentConfirmed(ex.loginResponse.code)

\* the steps of createAndAuthorizeOAuthConnection that follow createConnection
StepsAfterCreate ==
    {"fetchConsentUrlForConnection", "loginPromise", "confirmConsentCodeForConnection",
     AclMethod, "getConnection", "testConnection"}

-----------------------------------------------------------------------------
(* ACL reconciliation *)

\* positions of the trace at which a read of the access policies ended successfully
AclReads ==
    { i \in DOMAIN ex.trace :
        ex.trace[i][1] = AclMethod /\ ex.trace[i][2] = "ok" /\ ex.trace[i][3] = "_getConnectionAcls" }

LastAclRead == CHOOSE i \in AclReads : \A j \in AclReads : j <= i

\* the access-policy PUT was issued after the last read of the access policies
PutIssuedAfterLastRead ==
    /\ LastAclRead < Len(ex.trace)
    /\ ex.trace[LastAclRead + 1][1] = AclMethod
    /\ ex.trace[LastAclRead + 1][2] = "start"
    /\ ex.trace[LastAclRead + 1][3] = "_createAccessPolicyInConnection"

\* a policy read grants the selected identity in the service tenant
MatchingPolicyRead ==
    \E acl \in ex.connectionAcls :
        /\ acl.objectId =
             getIdentityDetailsForApiHubAuth(opts.workflowAppDetails.identity,
                                             opts.apiHubServiceDetails.tenantId,
                                             ex.aclIdentityId).principalId
        /\ acl.tenantId = opts.apiHubServiceDetails.tenantId

\* C8: for an ARM connection, with workflowAppDetails and an associated managed
\* identity, once the access policies were read _createConnectionAclIfNeeded issues
\* the access-policy PUT if and only if no policy read has principal objectId equal to
\* the selected identity's principalId and tenantId equal to the service tenantId.
C8_PutIffNoMatchingPolicy ==
    AclReads /= {} =>
        /\ isArmResourceId(ex.aclConnection.id)
        /\ opts.workflowAppDetails.present
        /\ isIdentityAssociatedWithLogicApp(opts.workflowAppDetails.identity)
        /\ PutIssuedAfterLastRead <=> ~MatchingPolicyRead

\* a matching policy was read and the step returned without a PUT
C8_Witness ==
    /\ AclReads /= {}
    /\ MatchingPolicyRead
    /\ ~PutIssuedAfterLastRead
    /\ Occurs(SetupOp, "ok", AclMethod)

\* C9: setupConnectionIfNeeded(connection, identityId) issues no access-policy PUT
\* when the access policies it read hold the policy that an earlier
\* setupConnectionIfNeeded with the same connection and identityId stored with a
\* successful PUT, for every managed identity type and every identity tenant.
C9_SetupIsIdempotent ==
    (call.op = SetupOp /\ AclReads /= {})
    => ~( /\ PutIssuedAfterLastRead
          /\ \E acl \in ex.connectionAcls : acl.putBy = <<SetupOp, call.identityId>> )

-----------------------------------------------------------------------------
(* getConnections *)

AllConnectionsReturned ==
    /\ call.op = GetConnectionsOp
    /\ call.connectorId = NoSegments
    /\ ex.result.kind = "resolved"

\* the entries read at a location of the local store, none when it is missing
EntriesRead(location) ==
    IF location \in ex.localData.missing THEN <<>> ELSE ex.localData[location]

IsLocalConnection(connection, key, connectorId) ==
    /\ connection.name = key
    /\ connection.id = connectorId \o <<"connections", key>>
    /\ connection.overallStatus = "Connected"

\* C10: getConnections() without a connector id returns one connection for every
\* entry of serviceProviderConnections, then of functionConnections, then of
\* apiManagementConnections, followed by all API-hub connections; a missing location
\* counts as empty; every local connection has name equal to its key, id
\* '<connector id>/connections/<key>' and overall status 'Connected'.
C10_ConnectionsListed ==
    AllConnectionsReturned =>
        LET sp == EntriesRead(serviceProviderLocation)
            fn == EntriesRead(functionsLocation)
            am == EntriesRead(apimLocation)
            hub == ex.hubData
            list == ex.result.list
        IN  /\ Len(list) = Len(sp) + Len(fn) + Len(am) + Len(hub)
            /\ \A i \in DOMAIN sp :
                  IsLocalConnection(list[i], sp[i].key, sp[i].data.serviceProvider.id)
            /\ \A i \in DOMAIN fn :
                  IsLocalConnection(list[Len(sp) + i], fn[i].key, azureFunctionConnectorId)
            /\ \A i \in DOMAIN am :
                  IsLocalConnection(list[Len(sp) + Len(fn) + i], am[i].key,
                                    apiManagementConnectorId)
            /\ \A i \in DOMAIN hub : list[Len(sp) + Len(fn) + Len(am) + i] = hub[i]

\* a store without the service provider location, and two API-hub connections
C10_Witness ==
    /\ AllConnectionsReturned
    /\ serviceProviderLocation \in ex.localData.missing
    /\ Len(ex.localData[functionsLocation]) = 1
    /\ Len(ex.hubData) = 2
    /\ Len(ex.result.list) = 4

-----------------------------------------------------------------------------
(* getConnections: the two reads *)

\* position in the trace of an event of getConnections, 0 when it did not happen
ReadEvent(kind, operation) ==
    LET hits == { i \in DOMAIN ex.trace : ex.trace[i] = <<GetConnectionsOp, kind, operation, NoSegments>> }
    IN  IF hits = {} THEN 0 ELSE CHOOSE i \in hits : TRUE

BothReadsStarted ==
    /\ ReadEvent("start", "readConnections") = 1
    /\ ReadEvent("start", "getConnectionsInApiHub") = 2

\* ids of the local connections of a list returned by readConnections
LocalConnectionIds(localConnections) ==
    { LocalConnectionList(localConnections)[i].id :
        i \in DOMAIN LocalConnectionList(localConnections) }

\* the step in which getConnections() resolves
GetConnectionsResolves ==
    /\ call.op = GetConnectionsOp
    /\ call.connectorId = NoSegments
    /\ ex.pc = "Promise.all"
    /\ ex'.result.kind = "resolved"

\* C11: getConnections() starts the local read and the API-hub read together, before
\* either has completed, and resolves only after both have completed; in whichever
\* order the two reads complete, the list returned is the list computed from what the
\* two reads returned, and the step that resolves adds the ids of the local connections
\* read to the cache and sets the initialized flag.
C11_ReadsJoined ==
    /\ []( (call.op = GetConnectionsOp /\ call.connectorId = NoSegments
            /\ ex.pc \in {"Promise.all", "done"}) => BothReadsStarted )
    /\ []( AllConnectionsReturned =>
             /\ ReadEvent("ok", "readConnections") > 2
             /\ ReadEvent("ok", "getConnectionsInApiHub") > 2
             /\ ex.result.list = LocalConnectionList(ex.localData) \o ex.hubData )
    /\ [][ GetConnectionsResolves =>
             /\ connections' = connections \cup LocalConnectionIds(ex'.localData)
             /\ allConnectionsInitialized' ]_vars

\* the API-hub read completed first, the local read second
C11_Witness ==
    /\ AllConnectionsReturned
    /\ ReadEvent("ok", "getConnectionsInApiHub") = 3
    /\ ReadEvent("ok", "readConnections") = 4
    /\ Len(ex.result.list) = 4
    /\ allConnectionsInitialized

\* a read of getConnections() failed
ReadFailed ==
    \/ ReadEvent("fail", "readConnections") > 0
    \/ ReadEvent("fail", "getConnectionsInApiHub") > 0

\* C12: when the local read or the API-hub read of getConnections() fails, the call
\* rejects, and the step in which it fails leaves _allConnectionsInitialized and the
\* _connections cache as they were.
C12_FailedReadRejects ==
    /\ []( (call.op = GetConnectionsOp /\ ReadFailed) =>
              ex.pc = "done" /\ ex.result.kind = "rejected" )
    /\ [][ (call.op = GetConnectionsOp /\ ex.pc = "Promise.all" /\ ex'.result.kind = "rejected")
              => UNCHANGED Cache ]_vars

\* the API-hub read failed after the local read had returned entries
C12_Witness ==
    /\ call.op = GetConnectionsOp
    /\ ReadEvent("ok", "readConnections") = 3
    /\ ReadEvent("fail", "getConnectionsInApiHub") = 4
    /\ Len(ex.localData[serviceProviderLocation]) = 2
    /\ ex.result.kind = "rejected"
    /\ ~allConnectionsInitialized

-----------------------------------------------------------------------------
(* Local connections *)

\* createConnectionInLocal handed its connectionsData to writeConnection
WriteConnectionInvoked == Occurs(LocalMethod, "start", "writeConnection")

\* the representation of a connection type: its model, its location, its connector id
Representation(connectionType, connectorId) ==
    CASE connectionType = ConnectionTypeFunction ->
           [model |-> "FunctionsConnectionModel", location |-> "functionConnections",
            connectorId |-> azureFunctionConnectorId]
      [] connectionType = ConnectionTypeApiManagement ->
           [model |-> "APIManagementConnectionModel", location |-> "apiManagementConnections",
            connectorId |-> apiManagementConnectorId]
      [] OTHER ->
           [model |-> "ServiceProviderConnectionModel", location |-> "serviceProviderConnections",
            connectorId |-> connectorId]

\* C13: local connection creation selects the representation by the connection
\* metadata type: what is handed to writeConnection is a functions model under
\* 'functionConnections' for type Function, an API-management model under
\* 'apiManagementConnections' for type ApiManagement and a service-provider model under
\* 'serviceProviderConnections' for every other or absent type; pathLocation holds
\* exactly that one location, and the id of the connection is
\* '<connector id of the representation>/connections/<connection name>'.
C13_RepresentationByType ==
    WriteConnectionInvoked =>
        LET representation == Representation(call.connectionType, call.connectorId)
        IN  /\ ex.connectionsData.model = representation.model
            /\ ex.connectionsData.pathLocation = <<representation.location>>
            /\ ex.connectionsData.connectionKey = LastSegment(call.connectionId)
            /\ ex.connection.id =
                 representation.connectorId \o <<"connections", LastSegment(call.connectionId)>>

\* a connection of type ApiManagement was written
C13_Witness ==
    /\ WriteConnectionInvoked
    /\ call.connectionType = ConnectionTypeApiManagement
    /\ ex.connectionsData.pathLocation = <<apimLocation>>
    /\ Occurs(LocalMethod, "ok", "writeConnection")
    /\ ex.result.connection.id = apiManagementConnectorId \o <<"connections", "c1">>

-----------------------------------------------------------------------------
(* Dispatch of createConnection *)

\* operations that create, authorize or test a connection of API hub
ApiHubOperations ==
    {"createConnectionInApiHub", AclMethod, "_getConnectionAcls",
     "_createAccessPolicyInConnection", "testConnection"}

\* operations of the local creation
LocalOperations == {"connectionCreationFunc", "_testServiceProviderConnection", "writeConnection"}

Started(operations) ==
    \E i \in DOMAIN ex.trace : ex.trace[i][2] = "start" /\ ex.trace[i][3] \in operations

\* C14: createConnection dispatches on the connector id: for an ARM resource id the
\* connection is created in API hub (a call that returns a connection has had its
\* create request answered) and writeConnection is never invoked; for any other id a
\* call that returns a connection has written it through writeConnection, and the call
\* issues no API-hub create, ACL or testConnection request.
C14_DispatchOnConnectorId ==
    call.op = CreateConnectionOp =>
        IF isArmResourceId(call.connectorId)
        THEN /\ ~Started(LocalOperations)
             /\ ex.result.kind = "resolved" => CreatedInApiHub
        ELSE /\ ~Started(ApiHubOperations)
             /\ ex.result.kind = "resolved" => Occurs(LocalMethod, "ok", "writeConnection")

\* a service-provider connection was created locally
C14_Witness ==
    /\ call.op = CreateConnectionOp
    /\ call.connectorId = ServiceProviderConnectorId
    /\ ex.result.kind = "resolved"
    /\ Occurs(LocalMethod, "ok", "writeConnection")
    /\ ~Started(ApiHubOperations)

\* workflowAppDetails is configured and no managed identity is associated
NoManagedIdentity ==
    /\ opts.workflowAppDetails.present
    /\ ~isIdentityAssociatedWithLogicApp(opts.workflowAppDetails.identity)

\* createConnection has run up to its first await or its end
CreateConnectionEntered ==
    \/ call.op = CreateConnectionOp /\ ex.pc /= "invoked"
    \/ call.op = OAuthOp /\ Occurs(OAuthOp, "start", "createConnection")

\* C15: when workflowAppDetails is configured and no managed identity is associated
\* with the logic app, createConnection for an ARM connector rejects and no API-hub
\* create request is issued for the connection.
C15_IdentityGate ==
    (isArmResourceId(call.connectorId) /\ CreateConnectionEntered /\ NoManagedIdentity)
    => /\ ex.pc = "done"
       /\ ex.result.kind = "rejected"
       /\ ex.result.connection = NoConnection
       /\ ~Started({"createConnectionInApiHub"})

C15_Witness ==
    /\ call.op = CreateConnectionOp
    /\ isArmResourceId(call.connectorId)
    /\ NoManagedIdentity
    /\ ex.result.kind = "rejected"
    /\ ex.result.errorMessage = FailedToCreatePrefix \o NoIdentityForCreateMessage
    /\ ~Started({"createConnectionInApiHub"})

-----------------------------------------------------------------------------
(* Deletes of createConnection *)

\* the call got as far as creating something: the API-hub create request succeeded,
\* or the connection was handed to writeConnection
SomethingCreated == CreatedInApiHub \/ WriteConnectionInvoked

\* C16: createConnection issues a delete request only in executions where the
\* connection was created earlier in the same call: a call that fails before anything
\* was created (identity gate, unregistered creation client, missing writeConnection
\* callback, failed create request) issues no delete.
C16_DeleteOnlyAfterCreate ==
    (call.op = CreateConnectionOp /\ FiredDeletes /= {}) => SomethingCreated

\* the connection named by the call that is in progress exists in API hub
ConnectionExists == LastSegment(call.connectionId) \in srvConnections

\* a delete request issued by an earlier call was answered in this step
EarlierDeleteAnswered ==
    \E d \in pendingDeletes : d.call < nCalls /\ d \notin pendingDeletes'

\* C17: a createConnection(id) that follows a failed call for the same id and returns
\* its connection keeps that connection: the answer to a delete request issued by the
\* earlier call never removes the connection the later call created.
C17_RetryKeepsConnection ==
    [][ ( /\ call.op = CreateConnectionOp
          /\ isArmResourceId(call.connectorId)
          /\ CreatedInApiHub
          /\ ex.result.kind = "resolved"
          /\ ConnectionExists
          /\ EarlierDeleteAnswered )
        => ConnectionExists' ]_vars

-----------------------------------------------------------------------------
(* Result of createAndAuthorizeOAuthConnection *)

\* C18: createAndAuthorizeOAuthConnection never rejects: whatever fails, getConnector
\* and createConnection included, it resolves with a result that holds exactly one of
\* connection and errorMessage.
C18_OAuthNeverRejects ==
    (call.op = OAuthOp /\ ex.pc = "done")
    => /\ ex.result.kind = "resolved"
       /\ (ex.result.connection /= NoConnection) /= Truthy(ex.result.errorMessage)

-----------------------------------------------------------------------------
(* Identity of the access policy *)

PutStarted == Occurs(AclMethod, "start", "_createAccessPolicyInConnection")

\* C19: when no identity id is specified, the access policy that is PUT carries the
\* principalId and tenantId of the system-assigned identity if the managed identity type
\* is SystemAssigned or SystemAssigned+UserAssigned, and otherwise the principalId of
\* the first user-assigned identity together with the service tenantId.
C19_IdentitySelection ==
    (PutStarted /\ ~Truthy(ex.aclIdentityId)) =>
        LET identity == opts.workflowAppDetails.identity
        IN  IF identity.type \in {"SystemAssigned", "SystemAssigned, UserAssigned"}
            THEN /\ ex.aclPolicy.objectId = identity.principalId
                 /\ ex.aclPolicy.tenantId = identity.tenantId
            ELSE /\ ex.aclPolicy.objectId = identity.userAssignedIdentities[1].principalId
                 /\ ex.aclPolicy.tenantId = opts.apiHubServiceDetails.tenantId

\* system-assigned identity of another tenant, user-assigned identities present
C19_Witness ==
    /\ PutStarted
    /\ ~Truthy(ex.aclIdentityId)
    /\ opts.workflowAppDetails.identity.type = "SystemAssigned, UserAssigned"
    /\ opts.workflowAppDetails.identity.tenantId = "T2"
    /\ ex.aclPolicy.objectId = "sysP"
    /\ ex.aclPolicy.tenantId = "T2"

-----------------------------------------------------------------------------
(* testConnection of createConnection *)

\* position of the first event of _createConnectionInApiHub of that kind, 0 if none
HubEvent(kind, operation) ==
    LET hits == { i \in DOMAIN ex.trace :
                    /\ ex.trace[i][1] = HubMethod
                    /\ ex.trace[i][2] = kind
                    /\ ex.trace[i][3] = operation }
    IN  IF hits = {} THEN 0 ELSE CHOOSE i \in hits : \A j \in hits : i <= j

\* shouldTestConnection of the createConnection that runs
ShouldTestConnection == IF call.op = OAuthOp THEN FALSE ELSE call.shouldTestConnection

\* C20: createConnection for an ARM connector invokes testConnection if and only if
\* shouldTestConnection is true: it is invoked only with shouldTestConnection true and
\* after the API-hub create and the ACL step have completed, and once both have
\* completed with shouldTestConnection true it has been invoked; with
\* shouldTestConnection false, as createAndAuthorizeOAuthConnection passes it,
\* createConnection never invokes testConnection.
C20_TestIffRequested ==
    (ArmCreateConnection /\ CreateConnectionEntered) =>
        /\ HubEvent("start", "testConnection") > 0 =>
              /\ ShouldTestConnection
              /\ HubEvent("ok", "createConnectionInApiHub") > 0
              /\ HubEvent("ok", AclMethod) > HubEvent("ok", "createConnectionInApiHub")
              /\ HubEvent("start", "testConnection") > HubEvent("ok", AclMethod)
        /\ (ShouldTestConnection /\ HubEvent("ok", AclMethod) > 0) =>
              HubEvent("start", "testConnection") > 0

\* a connection returned untested
C20_Witness ==
    /\ call.op = CreateConnectionOp
    /\ isArmResourceId(call.connectorId)
    /\ ~call.shouldTestConnection
    /\ HubEvent("ok", AclMethod) > 0
    /\ ex.result.kind = "resolved"
    /\ HubEvent("start", "testConnection") = 0

-----------------------------------------------------------------------------
(* Order of the local creation *)

\* position of the first event of the local creation of that kind, 0 if none
LocalEvent(method, kind, operation) ==
    LET hits == { i \in DOMAIN ex.trace :
                    /\ ex.trace[i][1] = method
                    /\ ex.trace[i][2] = kind
                    /\ ex.trace[i][3] = operation }
    IN  IF hits = {} THEN 0 ELSE CHOOSE i \in hits : \A j \in hits : i <= j

\* the connector is a service provider with a testConnectionUrl
TestRequested ==
    /\ call.connectionType \notin {"Function", "ApiManagement"}
    /\ call.testConnectionUrl

LocalCreateConnection == call.op = CreateConnectionOp /\ ~isArmResourceId(call.connectorId)

\* C21: local creation: writeConnection is invoked only after the service-provider
\* test request, made when the connector has a testConnectionUrl, returned a 2xx
\* status, and not at all when the test request failed; the connection is added to
\* the _connections cache, and counts as written, only in the step in which
\* writeConnection resolved; the step in which writeConnection fails leaves the cache
\* and what is written as they were.
C21_LocalCreationOrder ==
    /\ []( (LocalCreateConnection /\ WriteConnectionInvoked /\ TestRequested) =>
              /\ LocalEvent(ConfigMethod, "ok", "_testServiceProviderConnection") > 0
              /\ LocalEvent(ConfigMethod, "ok", "_testServiceProviderConnection")
                   < LocalEvent(LocalMethod, "start", "writeConnection")
              /\ ex.testResponse \in 200..299 )
    /\ []( (LocalCreateConnection
            /\ LocalEvent(ConfigMethod, "fail", "_testServiceProviderConnection") > 0)
           => ~WriteConnectionInvoked )
    /\ [][ ( /\ LocalCreateConnection
             /\ \/ ~(connections' \subseteq connections)
                \/ writtenConnections' /= writtenConnections )
           => /\ ex.pc = "writeConnection"
              /\ ex'.trace[Len(ex'.trace)] = <<LocalMethod, "ok", "writeConnection", NoSegments>>
              /\ connections' = connections \cup {ex.connection.id}
              /\ writtenConnections' = Append(writtenConnections, ex.connectionsData) ]_vars

\* tested with status 204, written, cached and returned
C21_Witness ==
    /\ LocalCreateConnection
    /\ TestRequested
    /\ ex.testResponse = 204
    /\ LocalEvent(LocalMethod, "ok", "writeConnection") > 0
    /\ ex.result.kind = "resolved"
    /\ ex.result.connection.id \in connections
    /\ Len(writtenConnections) = 1

\* C22: when the writeConnection callback is not configured, createConnection for a
\* non-ARM connector fails with 'Callback for write connection is not passed in
\* service.' before any other effect: once the call has started it is rejected with
\* that error, no connection-creation client function was invoked, no test request
\* was sent and writeConnection was not invoked (the call caches its connection only
\* when writeConnection resolved), and nothing is written.
C22_MissingCallbackFailsFirst ==
    (LocalCreateConnection /\ ~opts.writeConnection /\ ex.pc /= "invoked")
    => /\ ex.pc = "done"
       /\ ex.result.kind = "rejected"
       /\ ex.result.errorMessage = FailedToCreatePrefix \o NoWriteCallbackMessage
       /\ ~Started(LocalOperations)
       /\ writtenConnections = <<>>

-----------------------------------------------------------------------------
(* Secrets and app settings of local connections *)

\* the parameters of the call that are secrets, by the type of the connection
SecretParameters ==
    { call.connectionParameters[i] : i \in
        { i \in DOMAIN call.connectionParameters :
            CASE call.connectionType = ConnectionTypeFunction ->
                   call.connectionParameters[i].key = "authentication"
              [] call.connectionType = ConnectionTypeApiManagement ->
                   call.connectionParameters[i].key = "subscriptionKey"
              [] OTHER ->
                   call.connectionParameters[i].parameterSource = AppConfiguration } }

\* what the connectionData holds in the place of that parameter
Held(connectionData, parameter) ==
    CASE call.connectionType = ConnectionTypeFunction -> connectionData.authentication.value
      [] call.connectionType = ConnectionTypeApiManagement -> connectionData.subscriptionKey
      [] OTHER -> connectionData.parameterValues[parameter.propertyPath \o <<parameter.key>>]

\* every value the connectionData holds
ValuesHeld(connectionData) ==
    CASE call.connectionType = ConnectionTypeFunction -> {connectionData.authentication.value}
      [] call.connectionType = ConnectionTypeApiManagement ->
           {connectionData.subscriptionKey, connectionData.authentication.value}
      [] OTHER ->
           { connectionData.parameterValues[path] : path \in DOMAIN connectionData.parameterValues }

\* the data of this call that writeConnection has stored
WrittenByCall ==
    { writtenConnections[i] : i \in { i \in DOMAIN writtenConnections :
                                        writtenConnections[i] = ex.connectionsData } }

\* C23: secrets of local connections are kept in app settings only: in the data handed
\* to writeConnection, and in the data it stored, every service-provider parameter whose
\* parameterSource is AppConfiguration, the function key and the API-management
\* subscription key are held in connectionData as the reference "@appsetting('<name>')",
\* settings holds the raw value under exactly that <name>, and no value of connectionData
\* is the raw secret.
C23_SecretsInAppSettingsOnly ==
    (LocalCreateConnection /\ WriteConnectionInvoked) =>
        \A connectionsData \in {ex.connectionsData} \cup WrittenByCall :
            \A parameter \in SecretParameters :
                /\ \E appSettingName \in DOMAIN connectionsData.settings :
                      /\ Held(connectionsData.connectionData, parameter)
                           = Characters("@appsetting('") \o appSettingName \o Characters("')")
                      /\ connectionsData.settings[appSettingName] = parameter.value
                /\ parameter.value \notin ValuesHeld(connectionsData.connectionData)

\* a service-provider connection with two secrets and a plain parameter, a function
\* connection and an API-management connection have been written
C23_Witness ==
    /\ LocalCreateConnection
    /\ LocalEvent(LocalMethod, "ok", "writeConnection") > 0
    /\ call.connectionType = ConnectionTypeFunction
    /\ SecretParameters /= {}
    /\ WrittenByCall /= {}
    /\ Len(writtenConnections) = 2
    /\ writtenConnections[1].model = "ServiceProviderConnectionModel"
    /\ Cardinality(DOMAIN writtenConnections[1].settings) = 2
    /\ Cardinality(DOMAIN writtenConnections[1].connectionData.parameterValues) = 3

\* C24: app-setting names are collision-free: the settings written for two connections
\* with different connection keys have no name in common, so that the secret of one
\* connection never overwrites the app setting of another.
C24_NamesCollisionFree ==
    \A i, j \in DOMAIN writtenConnections :
        writtenConnections[i].connectionKey /= writtenConnections[j].connectionKey
        => DOMAIN writtenConnections[i].settings \cap DOMAIN writtenConnections[j].settings = {}

====
